---------------------------- MODULE Spec2Model ----------------------------
(***************************************************************************)
(* dagwatch: the status-polling loop of a DAG watcher for HTCondor.        *)
(*                                                                         *)
(* The model follows one run of the command line program                   *)
(* (dagwatch/__main__.py): watch_dag looks the DAG up once, prints a       *)
(* header, then consumes the generator iterate_dag_status, which calls     *)
(* get_dag_status once per poll (twice when the first call raises IOError  *)
(* or KeyError).  Every blocking operation of the program (a scheduler     *)
(* query, a history query, a sleep, a subprocess) is one program point     *)
(* (pc); the action that leaves a program point draws the outcome of the   *)
(* blocking operation from the environment and runs the code up to the     *)
(* next blocking operation.  A KeyboardInterrupt can arrive at any program *)
(* point inside watch_dag.                                                 *)
(***************************************************************************)
EXTENDS Integers, Sequences, FiniteSets, TLC

(***************************************************************************)
(* Bounds of the model                                                     *)
(***************************************************************************)
\* number of poll cycles of iterate_dag_status that are explored
MaxPolls == 2
\* largest value of a DAG_Nodes* counter returned by the scheduler
MaxCount == 1
\* largest number of child nodes returned by the node enumeration
MaxNodes == 1
\* largest ExitCode found in a history record
MaxExit == 2

(***************************************************************************)
(* Program constants                                                       *)
(***************************************************************************)
\* condor.py:30-38
JOB_STATUS ==
    <<"Unexpanded", "Idle", "Running", "Removed", "Completed", "Held",
      "Submission error">>

\* str.lower() on the words the program lower-cases
Lower(w) ==
    CASE w = "Unexpanded" -> "unexpanded"
      [] w = "Idle" -> "idle"
      [] w = "Running" -> "running"
      [] w = "Removed" -> "removed"
      [] w = "Completed" -> "completed"
      [] w = "Held" -> "held"
      [] w = "Submission error" -> "submission error"
      [] w = "Timeout" -> "timeout"
      [] w = "Cowardly" -> "cowardly"
      [] w = "Failed" -> "failed"
      [] OTHER -> w

\* a variant of JOB_STATUS_MAP that numbers the states from 1
JOB_STATUS_MAP_from1(name) ==
    CHOOSE k \in 1..Len(JOB_STATUS) : Lower(JOB_STATUS[k]) = name

\* condor.py:39  dict((v.lower(), k) for k, v in enumerate(JOB_STATUS))
JOB_STATUS_MAP(name) ==
    CHOOSE k \in 0..(Len(JOB_STATUS) - 1) : Lower(JOB_STATUS[k + 1]) = name

\* dagwatch.py:33
NODE_STATES == <<"unready", "ready", "idle", "running", "held", "failed", "done">>

\* condor.py:122
states == <<"total", "done", "queued", "ready", "unready", "failed">>

\* str.title() on the six state names
Title(s) ==
    CASE s = "total" -> "Total"
      [] s = "done" -> "Done"
      [] s = "queued" -> "Queued"
      [] s = "ready" -> "Ready"
      [] s = "unready" -> "Unready"
      [] s = "failed" -> "Failed"

\* condor.py:123  ['DAG_Nodes%s' % s.title() for s in states]
classads == [i \in 1..Len(states) |-> "DAG_Nodes" \o Title(states[i])]

\* condor.py:135  the value stored when condor_q gives no number ('-');
\* counters are non-negative, so a negative number stands for the string
Unknown == -2

\* dagwatch.py:111  the value every tracked field of `old` starts with
OldInit == -1

(***************************************************************************)
(* Exceptions and messages.  A message is the sequence of its words.       *)
(***************************************************************************)
Exc(type, msg, at) == [type |-> type, msg |-> msg, at |-> at]
NoExc == Exc("none", <<>>, 0)

\* str.startswith
StartsWith(msg, prefix) ==
    /\ Len(msg) >= Len(prefix)
    /\ SubSeq(msg, 1, Len(prefix)) = prefix

\* 'word' in str(e).lower()
ContainsLower(msg, word) == \E i \in 1..Len(msg) : Lower(msg[i]) = word

\* condor.py:291
NoJobsMsg == <<"No", "jobs", "found", "matching", "constraints">>
\* condor.py:294
MultipleMsg == <<"Multiple", "jobs", "found", "matching", "constraints">>

Range(f) == {f[x] : x \in DOMAIN f}
EmptyAd == [x \in {} |-> 0]

\* a variant of find_job that gives an empty ad when nothing matched
find_job_empty(jobs, at) ==
    IF Len(jobs) = 0
        THEN [ok |-> TRUE, val |-> EmptyAd, exc |-> NoExc]
    ELSE IF Len(jobs) > 1
        THEN [ok |-> FALSE, val |-> EmptyAd,
              exc |-> Exc("RuntimeError", MultipleMsg, at)]
    ELSE [ok |-> TRUE, val |-> jobs[1], exc |-> NoExc]

\* a variant of find_job that takes the first of several matches
find_job_first(jobs, at) ==
    IF Len(jobs) = 0
        THEN [ok |-> FALSE, val |-> EmptyAd,
              exc |-> Exc("RuntimeError", NoJobsMsg, at)]
        ELSE [ok |-> TRUE, val |-> jobs[1], exc |-> NoExc]

(***************************************************************************)
(* condor.py:265-296  find_job on the list returned by find_jobs           *)
(***************************************************************************)
find_job(jobs, at) ==
    IF Len(jobs) = 0
        THEN [ok |-> FALSE, val |-> EmptyAd,
              exc |-> Exc("RuntimeError", NoJobsMsg, at)]
    ELSE IF Len(jobs) > 1
        THEN [ok |-> FALSE, val |-> EmptyAd,
              exc |-> Exc("RuntimeError", MultipleMsg, at)]
    ELSE [ok |-> TRUE, val |-> jobs[1], exc |-> NoExc]

\* a variant of IsNoJobsFound that takes every RuntimeError of the lookup as
\* the end of the DAG
IsNoJobsFound_any(x) == x.type = "RuntimeError"

\* condor.py:138  the test that takes the DAG-has-exited branch
IsNoJobsFound(x) ==
    x.type = "RuntimeError" /\ StartsWith(x.msg, <<"No", "jobs", "found">>)

(***************************************************************************)
(* What the scheduler, the history archive and the subprocesses can answer *)
(***************************************************************************)
Counts == 0..MaxCount
ExitCodes == 0..MaxExit
HistoryFields == classads \o <<"ExitCode">>

Without(ad, key) == [k \in (DOMAIN ad) \ {key} |-> ad[k]]

\* a complete live-queue ad of the DAGMan job
FullLiveAd(q) ==
    [c \in Range(classads) |->
        CASE c = "DAG_NodesTotal" -> MaxCount
          [] c = "DAG_NodesQueued" -> q
          [] OTHER -> 0]

\* live-queue ads: complete ones, and one that lacks DAG_NodesDone (the
\* value of done then comes from condor_q)
LiveAds ==
    {FullLiveAd(q) : q \in Counts}
        \cup {Without(FullLiveAd(0), "DAG_NodesDone")}

\* a complete history ad of the DAGMan job
FullHistAd(x) ==
    [c \in Range(HistoryFields) |->
        CASE c = "DAG_NodesTotal" -> MaxCount
          [] c = "DAG_NodesDone" -> MaxCount
          [] c = "ExitCode" -> x
          [] OTHER -> 0]

\* history ads: complete ones, one without ExitCode, one without a counter
HistoryAds ==
    {FullHistAd(x) : x \in ExitCodes}
        \cup {Without(FullHistAd(0), "ExitCode"),
              Without(FullHistAd(1), "DAG_NodesDone")}

\* child node ads: one per JobStatus code, and one without JobStatus
NodeAds ==
    {[JobStatus |-> k] : k \in 0..(Len(JOB_STATUS) - 1)} \cup {EmptyAd}

SeqsUpTo(S, n) == UNION {[1..m -> S] : m \in 0..n}
NodeLists == SeqsUpTo(NodeAds, MaxNodes)

Return(jobs) == [kind |-> "return", jobs |-> jobs, exc |-> NoExc]
Raise(type, msg) == [kind |-> "raise", jobs |-> <<>>, exc |-> Exc(type, msg, 0)]

IOMsg == <<"Failed", "to", "connect", "to", "schedd">>
QueryFailedMsg == <<"Failed", "to", "fetch", "ads", "from", "schedd">>
KeyMsg == <<"missing", "attribute">>
TimeoutMsg == <<"Timeout", "when", "waiting", "for", "remote", "host">>
CowardlyMsg == <<"Cowardly", "refusing", "to", "read", "history">>

\* schedd.query for the watched ClusterId (condor.py:262, via find_jobs)
LiveOutcomes ==
    {Return(<<>>)}
        \cup {Return(<<ad>>) : ad \in LiveAds}
        \cup {Return(<<FullLiveAd(0), FullLiveAd(0)>>)}
        \cup {Raise("IOError", IOMsg), Raise("RuntimeError", QueryFailedMsg)}

\* schedd.query for the DAG's child nodes (condor.py:170)
NodeOutcomes ==
    {Return(n) : n \in NodeLists} \cup {Raise("IOError", IOMsg)}

\* schedd.history(..., 1) (condor.py:142, 145, 149)
HistoryOutcomes ==
    {Return(<<>>)}
        \cup {Return(<<ad>>) : ad \in HistoryAds}
        \cup {Raise("IOError", IOMsg), Raise("KeyError", KeyMsg),
              Raise("RuntimeError", TimeoutMsg),
              Raise("RuntimeError", CowardlyMsg),
              Raise("RuntimeError", QueryFailedMsg)}

\* condor_q -autoformat for one attribute (condor.py:132-135): a number, or
\* no number (ValueError) or a failed command (CalledProcessError)
CondorQOutcomes ==
    {[ok |-> TRUE, val |-> n] : n \in Counts} \cup {[ok |-> FALSE, val |-> 0]}

(***************************************************************************)
(* condor.py:126-135  the six aggregate counters of a live ad; q gives the *)
(* condor_q answer for every attribute the ad lacks                        *)
(***************************************************************************)
live_status(job, q) ==
    [s \in Range(states) |->
        LET c == classads[CHOOSE i \in 1..Len(states) : states[i] = s]
        IN  IF c \in DOMAIN job THEN job[c]
            ELSE IF q[c].ok THEN q[c].val ELSE Unknown]

(***************************************************************************)
(* condor.py:216-234  get_job_status of a ClassAd                          *)
(***************************************************************************)
get_job_status(job) ==
    IF "JobStatus" \in DOMAIN job
        THEN [ok |-> TRUE, val |-> job["JobStatus"]]
        ELSE [ok |-> FALSE, val |-> 0]

\* condor.py:173-178  the bucket a status code is counted in
Bucket(s) ==
    IF s = JOB_STATUS_MAP("held") THEN "held"
    ELSE IF s = JOB_STATUS_MAP("running") THEN "running"
    ELSE IF s = JOB_STATUS_MAP("idle") THEN "idle"
    ELSE "none"

\* condor.py:171-178  the loop over the nodes, from node i on
RECURSIVE CountNodes(_, _, _)
CountNodes(nodes, i, st) ==
    IF i > Len(nodes) THEN [ok |-> TRUE, val |-> st]
    ELSE LET s == get_job_status(nodes[i])
         IN  IF ~s.ok THEN [ok |-> FALSE, val |-> st]
             ELSE LET b == Bucket(s.val)
                  IN  CountNodes(nodes, i + 1,
                          IF b = "none" THEN st
                          ELSE [st EXCEPT ![b] = st[b] + 1])

\* condor.py:166-179  the detailed status: three more fields, then the loop
detailed_status(st, nodes) ==
    CountNodes(nodes, 1,
        [k \in (DOMAIN st) \cup {"held", "running", "idle"} |->
            IF k \in {"held", "running", "idle"} THEN 0 ELSE st[k]])

\* a variant of history_status that reads the exit code from the wrong
\* attribute
history_status_failed(job) ==
    IF Range(HistoryFields) \subseteq DOMAIN job
        THEN [ok |-> TRUE,
              val |-> [k \in Range(states) \cup {"exitcode", "held", "running", "idle"} |->
                        IF k \in {"held", "running", "idle"} THEN 0
                        ELSE IF k = "exitcode" THEN job["DAG_NodesFailed"]
                        ELSE job[classads[CHOOSE i \in 1..Len(states) : states[i] = k]]]]
        ELSE [ok |-> FALSE, val |-> EmptyAd]

(***************************************************************************)
(* condor.py:159-162  the status built from a history ad                   *)
(***************************************************************************)
history_status(job) ==
    IF Range(HistoryFields) \subseteq DOMAIN job
        THEN [ok |-> TRUE,
              val |-> [k \in Range(states) \cup {"exitcode", "held", "running", "idle"} |->
                        IF k \in {"held", "running", "idle"} THEN 0
                        ELSE IF k = "exitcode" THEN job["ExitCode"]
                        ELSE job[classads[CHOOSE i \in 1..Len(states) : states[i] = k]]]]
        ELSE [ok |-> FALSE, val |-> EmptyAd]

(***************************************************************************)
(* condor.py:182-213  get_condor_history_shell.  The output of             *)
(* condor_history is a sequence of lines, a line a sequence of tokens; a   *)
(* token is the number it spells, or Undefined for a token int() rejects.  *)
(* The code is read as Python 2 (str output of check_output, iteritems).   *)
(***************************************************************************)
Undefined == -1

\* condor.py:208  history.rstrip('\n').split('\n'): never an empty list
SplitLines(out) == IF out = <<>> THEN << <<>> >> ELSE out

Min(a, b) == IF a < b THEN a ELSE b

\* dict(zip(keys, values))
ZipDict(keys, values) ==
    [k \in {keys[i] : i \in 1..Min(Len(keys), Len(values))} |->
        values[CHOOSE i \in 1..Len(keys) : keys[i] = k]]

get_condor_history_shell(out) ==
    LET lines == SplitLines(out)
    IN  [i \in 1..Len(lines) |-> ZipDict(HistoryFields, lines[i])]

\* condor.py:156  dict((k, int(v)) for k, v in job.iteritems())
IntValues(job) ==
    IF \E k \in DOMAIN job : job[k] = Undefined
        THEN [ok |-> FALSE, val |-> EmptyAd]
        ELSE [ok |-> TRUE, val |-> job]

\* setup.py:57-64  the interpreters the package declares it runs on
PythonVersions == {2, 3}

\* condor.py:207  the type of what check_output returns: str under Python 2,
\* bytes under Python 3
check_output_type(py) == IF py = 2 THEN "str" ELSE "bytes"

\* condor.py:208  history.rstrip('\n'): a str method takes the str argument;
\* bytes.rstrip given a str raises TypeError
rstrip_accepts(type) == type = "str"

FullRow(x) == [i \in 1..Len(HistoryFields) |-> FullHistAd(x)[HistoryFields[i]]]

\* what the condor_history subprocess can print, or its failure
ShellOutcomes ==
    {Return(<<FullRow(x)>>) : x \in ExitCodes}
        \cup {Return(<<>>),
              Return(<<SubSeq(FullRow(1), 1, Len(classads))>>),
              Return(<<[FullRow(1) EXCEPT ![Len(HistoryFields)] = Undefined]>>),
              Raise("CalledProcessError", <<"condor_history">>)}

(***************************************************************************)
(* dagwatch.py:113-116  the progress line, and the loop that prints it at  *)
(* the first tracked state that changed                                    *)
(***************************************************************************)
\* dagwatch.py:115  ' | '.join(['%7s' % job[s] for s in NODE_STATES])
ProgressLine(j) == [i \in 1..Len(NODE_STATES) |-> j[NODE_STATES[i]]]

RECURSIVE ReportFrom(_, _, _)
ReportFrom(i, o, j) ==
    IF i > Len(NODE_STATES) THEN <<>>
    ELSE IF j[NODE_STATES[i]] # o[NODE_STATES[i]] THEN <<ProgressLine(j)>>
    ELSE ReportFrom(i + 1, o, j)

\* a variant of report that logs a line for every snapshot
report_always(o, j) == <<ProgressLine(j)>>

report(o, j) == ReportFrom(1, o, j)

\* a variant of InitialOld that starts the tracked fields at 0
InitialOld_zero == [k \in Range(NODE_STATES) |-> 0]

\* dagwatch.py:111
InitialOld == [k \in Range(NODE_STATES) |-> OldInit]

\* a variant of iterate_except that reconnects and retries after every
\* IOError or KeyError
iterate_except_again(x, a, saved) ==
    IF x.type \in {"IOError", "KeyError"}
        THEN [act |-> "retry", exc |-> x]
        ELSE [act |-> "raise", exc |-> x]

\* a variant of iterate_except whose first clause catches LookupError, and
\* with it the IndexError of an empty list
iterate_except_lookup(x, a, saved) ==
    IF a = 1
        THEN IF x.type \in {"IOError", "KeyError", "IndexError"}
                THEN [act |-> "retry", exc |-> x]
                ELSE [act |-> "raise", exc |-> x]
        ELSE IF x.type = "IOError"
                THEN [act |-> "raise", exc |-> saved]
                ELSE [act |-> "raise", exc |-> x]

\* a variant of iterate_except whose first clause catches IOError only
iterate_except_ioerror(x, a, saved) ==
    IF a = 1
        THEN IF x.type = "IOError"
                THEN [act |-> "retry", exc |-> x]
                ELSE [act |-> "raise", exc |-> x]
        ELSE IF x.type = "IOError"
                THEN [act |-> "raise", exc |-> saved]
                ELSE [act |-> "raise", exc |-> x]

\* a variant of iterate_except whose first clause is a bare except
iterate_except_bare(x, a, saved) ==
    IF a = 1
        THEN [act |-> "retry", exc |-> x]
        ELSE IF x.type = "IOError"
                THEN [act |-> "raise", exc |-> saved]
                ELSE [act |-> "raise", exc |-> x]

\* a variant of iterate_except whose second clause re-raises what it caught
iterate_except_second(x, a, saved) ==
    IF a = 1
        THEN IF x.type \in {"IOError", "KeyError"}
                THEN [act |-> "retry", exc |-> x]
                ELSE [act |-> "raise", exc |-> x]
        ELSE [act |-> "raise", exc |-> x]

(***************************************************************************)
(* condor.py:72-81  what iterate_dag_status does with an exception x that  *)
(* leaves call number a of get_dag_status; saved is the exception bound to *)
(* e by the first call                                                     *)
(***************************************************************************)
iterate_except(x, a, saved) ==
    IF a = 1
        THEN IF x.type \in {"IOError", "KeyError"}
                THEN [act |-> "retry", exc |-> x]
                ELSE [act |-> "raise", exc |-> x]
        ELSE IF x.type = "IOError"
                THEN [act |-> "raise", exc |-> saved]
                ELSE [act |-> "raise", exc |-> x]

\* a variant of history_except that waits before the query after IOError
history_except_iowait(x) ==
    IF x.type \in {"IOError", "KeyError"} THEN "sleep10"
    ELSE IF x.type = "RuntimeError"
        THEN IF ContainsLower(x.msg, "timeout") \/ ContainsLower(x.msg, "cowardly")
                THEN "shell"
                ELSE "raise"
    ELSE "raise"

\* condor.py:144-158  the except clause that handles an exception raised by
\* the first history query
history_except(x) ==
    IF x.type = "IOError" THEN "again"
    ELSE IF x.type = "KeyError" THEN "sleep10"
    ELSE IF x.type = "RuntimeError"
        THEN IF ContainsLower(x.msg, "timeout") \/ ContainsLower(x.msg, "cowardly")
                THEN "shell"
                ELSE "raise"
    ELSE "raise"

\* a variant of main_except that sets exitcode = 1
main_except_one(x) ==
    IF x.type = "KeyboardInterrupt"
        THEN [caught |-> TRUE, exitcode |-> 1]
        ELSE [caught |-> FALSE, exitcode |-> 0]

\* __main__.py:69-74  the except clause around watch_dag
main_except(x) ==
    IF x.type = "KeyboardInterrupt"
        THEN [caught |-> TRUE, exitcode |-> 0]
        ELSE [caught |-> FALSE, exitcode |-> 0]

\* a variant of after_yield that tests the value of 'exitcode', not its
\* presence
after_yield_truthy(st) ==
    IF "exitcode" \in DOMAIN st /\ st["exitcode"] # 0 THEN "wd_footer" ELSE "it_sleep"

\* a variant of after_yield without the sleep
after_yield_nosleep(st) ==
    IF "exitcode" \in DOMAIN st THEN "wd_footer" ELSE "gds_find_job"

\* a variant of after_yield without the break
after_yield_nobreak(st) == "it_sleep"

\* condor.py:83-85  where iterate_dag_status goes after the yield
after_yield(st) == IF "exitcode" \in DOMAIN st THEN "wd_footer" ELSE "it_sleep"

\* condor.py:83  'exitcode' in status
HasExitCode(st) == "exitcode" \in DOMAIN st

\* a variant of reconnect that goes on with the Schedd it has
reconnect_keep(n) == n

\* condor.py:75-76  del schedd; schedd = htcondor.Schedd(): the handle after
\* n handles have been made is handle n + 1
reconnect(n) == n + 1

\* a variant of footer_severity that logs every exit summary at info
footer_severity_info(code) == "info"

\* dagwatch.py:121-124  the severity of the exit summary
footer_severity(code) == IF code # 0 THEN "critical" ELSE "info"

\* a variant of main_exit_status that always exits with 1 on failure
main_exit_status_one(code) == IF code # 0 THEN 1 ELSE 0

\* __main__.py:76-77  the exit status of the process for a given exitcode
main_exit_status(code) == IF code # 0 THEN code % 256 ELSE 0

(***************************************************************************)
(* State                                                                   *)
(***************************************************************************)
VARIABLES
    pc,          \* the blocking operation (or step) the program is at
    schedd,      \* iterate_dag_status: the Schedd handle in use (0: none)
    nschedd,     \* number of htcondor.Schedd() objects created so far
    attempt,     \* which call of get_dag_status of this poll is running
    e,           \* iterate_dag_status: the exception bound by line 72
    jobs,        \* find_job: what find_jobs gave (line 289)
    dagjob,      \* get_dag_status: the local variable job
    nodes,       \* get_dag_status: the local variable nodes
    status,      \* get_dag_status / iterate_dag_status: the status dict
    old,         \* watch_dag: the previous snapshot
    job,         \* watch_dag: the loop variable
    prevOld,     \* while the loop body is run for a snapshot: the value
                 \* old had before line 117
    emitted,     \* the progress lines logged by this run of the loop body
    polls,       \* number of poll cycles started
    ev,          \* what the current call of get_dag_status did so far, in
                 \* order, after what iterate_dag_status did to start it
    gdsExc,      \* the exception that last left get_dag_status
    herr,        \* get_dag_status: the exception the first history query
                 \* raised into the except clauses of lines 144-151
    python,      \* the major version of the interpreter that runs the
                 \* program, once code that depends on it has run (0 before)
    history,     \* get_condor_history_shell: what condor_history printed
    intAt,       \* the program point a KeyboardInterrupt arrived at
    header,      \* the header was logged
    footer,      \* severity of the exit summary ("none": not logged)
    wdResult,    \* how watch_dag ended
    exitcode,    \* __main__: the variable exitcode
    exitStatus   \* exit status of the process, once pc = "exited"

vars ==
    <<pc, schedd, nschedd, attempt, e, jobs, dagjob, nodes, status, old, job,
      prevOld, emitted, polls, ev, gdsExc, herr, python, history, intAt,
      header, footer, wdResult, exitcode, exitStatus>>

\* the interpreter and the output of the condor_history subprocess
shellVars == <<python, history>>

\* the variables of watch_dag's loop and of the logger
watchVars == <<old, job, prevOld, emitted, header, footer>>
\* the variables of the end of the process
endVars == <<wdResult, exitcode, exitStatus>>
\* the connection and the poll counters of iterate_dag_status
loopVars == <<schedd, nschedd, attempt, polls>>

Ev(op, h) == [op |-> op, h |-> h]

NoCall == [kind |-> "none", jobs |-> <<>>, exc |-> NoExc]
Running == [kind |-> "none", val |-> 0, exc |-> NoExc]
Returned(v) == [kind |-> "return", val |-> v, exc |-> NoExc]
Raised(x) == [kind |-> "raise", val |-> 0, exc |-> x]

Init ==
    /\ pc = "wd_find_job"
    /\ schedd = 0
    /\ nschedd = 0
    /\ attempt = 0
    /\ e = NoExc
    /\ jobs = NoCall
    /\ dagjob = EmptyAd
    /\ nodes = <<>>
    /\ status = EmptyAd
    /\ old = EmptyAd
    /\ job = EmptyAd
    /\ prevOld = EmptyAd
    /\ emitted = <<>>
    /\ polls = 0
    /\ ev = <<>>
    /\ gdsExc = NoExc
    /\ herr = NoExc
    /\ python = 0
    /\ history = NoCall
    /\ intAt = "none"
    /\ header = FALSE
    /\ footer = "none"
    /\ wdResult = Running
    /\ exitcode = 0
    /\ exitStatus = 0

(***************************************************************************)
(* How an exception travels                                                *)
(***************************************************************************)
\* __main__.py:69-77  exception x leaves watch_dag: the except clause of
\* __main__ sets exitcode, or the interpreter ends with status 1
Leaves(x) ==
    /\ wdResult' = Raised(x)
    /\ IF main_except(x).caught
          THEN /\ exitcode' = main_except(x).exitcode
               /\ pc' = "main_exit"
               /\ UNCHANGED exitStatus
          ELSE /\ pc' = "exited"
               /\ exitStatus' = 1
               /\ UNCHANGED exitcode

\* condor.py:72-81  exception x leaves the running call of get_dag_status
Escapes(x) ==
    LET h == iterate_except(x, attempt, e)
    IN  /\ gdsExc' = x
        /\ IF h.act = "retry"
              THEN /\ pc' = "it_sleep1"
                   /\ e' = h.exc
                   /\ UNCHANGED endVars
              ELSE /\ Leaves(h.exc)
                   /\ UNCHANGED e

\* condor.py:82  get_dag_status returned st: the generator yields it
Yields(st) ==
    /\ status' = st
    /\ pc' = "it_yield"
    /\ UNCHANGED <<e, gdsExc, endVars>>

\* the program goes on to the blocking operation p
Goes(p) ==
    /\ pc' = p
    /\ UNCHANGED <<e, gdsExc, endVars>>

\* the ad of the DAGMan job as watch_dag asks for it (dagwatch.py:92-95)
DagAd == [ClusterId |-> 1, DAG_NodesTotal |-> MaxCount]

WatchOutcomes ==
    {Return(<<>>), Return(<<DagAd>>), Return(<<DagAd, DagAd>>),
     Raise("IOError", IOMsg), Raise("RuntimeError", QueryFailedMsg)}

\* condor.py:289-296  find_job when find_jobs gave o
FindJobOf(o, at) ==
    IF o.kind = "raise"
        THEN [ok |-> FALSE, val |-> EmptyAd, exc |-> [o.exc EXCEPT !.at = at]]
        ELSE find_job(o.jobs, at)

(***************************************************************************)
(* dagwatch.py:91-112  watch_dag: the first lookup, the header, and the    *)
(* start of the generator (condor.py:67-71) up to its first query          *)
(***************************************************************************)
WatchFindJob ==
    /\ pc = "wd_find_job"
    /\ \E o \in WatchOutcomes :
        LET r == FindJobOf(o, 0)
        IN  /\ jobs' = o
            /\ IF r.ok
                  THEN /\ header' = TRUE
                       /\ old' = InitialOld
                       /\ schedd' = nschedd + 2
                       /\ nschedd' = nschedd + 2
                       /\ attempt' = 1
                       /\ polls' = 1
                       /\ ev' = <<Ev("connect", nschedd + 2),
                                  Ev("get_dag_status", nschedd + 2)>>
                       /\ pc' = "gds_find_job"
                       /\ UNCHANGED endVars
                  ELSE /\ Leaves(r.exc)
                       /\ nschedd' = nschedd + 1
                       /\ UNCHANGED <<header, old, schedd, attempt, polls, ev>>
    /\ UNCHANGED <<e, dagjob, nodes, status, job, prevOld, emitted, gdsExc,
                   herr, shellVars, intAt, footer>>

(***************************************************************************)
(* condor.py:124-139  get_dag_status: the live-queue lookup                *)
(***************************************************************************)
GdsFindJob ==
    /\ pc = "gds_find_job"
    /\ ev' = Append(ev, Ev("query_job", schedd))
    /\ \E o \in LiveOutcomes :
        LET r == FindJobOf(o, attempt)
        IN  /\ jobs' = o
            /\ IF r.ok
                  THEN \E q \in [Range(classads) \ DOMAIN r.val -> CondorQOutcomes] :
                          /\ dagjob' = r.val
                          /\ status' = live_status(r.val, q)
                          /\ Goes("gds_find_jobs")
               ELSE IF IsNoJobsFound(r.exc)
                  THEN /\ Goes("gds_sleep1")
                       /\ UNCHANGED <<dagjob, status>>
               ELSE /\ Escapes(r.exc)
                    /\ UNCHANGED <<dagjob, status>>
    /\ UNCHANGED <<loopVars, watchVars, nodes, herr, shellVars, intAt>>

(***************************************************************************)
(* condor.py:164-179  get_dag_status: the node enumeration                 *)
(***************************************************************************)
GdsFindJobs ==
    /\ pc = "gds_find_jobs"
    /\ ev' = Append(ev, Ev("query_nodes", schedd))
    /\ \E o \in NodeOutcomes :
        IF o.kind = "raise"
            THEN /\ Escapes([o.exc EXCEPT !.at = attempt])
                 /\ UNCHANGED <<status, nodes>>
            ELSE LET r == detailed_status(status, o.jobs)
                 IN  /\ nodes' = o.jobs
                     /\ IF r.ok
                           THEN Yields(r.val)
                           ELSE /\ Escapes(Exc("KeyError", <<"JobStatus">>, attempt))
                                /\ UNCHANGED status
    /\ UNCHANGED <<loopVars, watchVars, jobs, dagjob, herr, shellVars, intAt>>

(***************************************************************************)
(* condor.py:140  get_dag_status: sleep(1) before the history query        *)
(***************************************************************************)
GdsSleep1 ==
    /\ pc = "gds_sleep1"
    /\ Goes("gds_history")
    /\ ev' = Append(ev, Ev("sleep1_gds", 0))
    /\ UNCHANGED <<loopVars, watchVars, jobs, dagjob, nodes, status, herr, shellVars, intAt>>

\* condor.py:143, 146, 150, 155, 159-162  [0] of the list a history query
\* gave, and the status built from it
FromHistory(list) ==
    IF Len(list) = 0
        THEN /\ Escapes(Exc("IndexError", <<"list", "index", "out", "of", "range">>, attempt))
             /\ UNCHANGED <<dagjob, status>>
        ELSE LET r == history_status(list[1])
             IN  /\ dagjob' = list[1]
                 /\ IF r.ok
                       THEN Yields(r.val)
                       ELSE /\ Escapes(Exc("KeyError", KeyMsg, attempt))
                            /\ UNCHANGED status

(***************************************************************************)
(* condor.py:141-158  get_dag_status: the first history query              *)
(***************************************************************************)
GdsHistory ==
    /\ pc = "gds_history"
    /\ ev' = Append(ev, Ev("history", schedd))
    /\ \E o \in HistoryOutcomes :
        IF o.kind = "return"
            THEN /\ FromHistory(o.jobs)
                 /\ UNCHANGED herr
        ELSE /\ UNCHANGED <<dagjob, status>>
             /\ herr' = o.exc
             /\ LET h == history_except(o.exc)
                IN  IF h = "again" THEN Goes("gds_history_io")
                    ELSE IF h = "sleep10" THEN Goes("gds_sleep10")
                    ELSE IF h = "shell" THEN Goes("gds_history_shell")
                    ELSE Escapes([o.exc EXCEPT !.at = attempt])
    /\ UNCHANGED <<loopVars, watchVars, jobs, nodes, shellVars, intAt>>

\* a history query issued inside an except clause: whatever it raises
\* leaves get_dag_status
HistoryAgain ==
    /\ ev' = Append(ev, Ev("history", schedd))
    /\ \E o \in HistoryOutcomes :
        IF o.kind = "return" THEN FromHistory(o.jobs)
        ELSE /\ Escapes([o.exc EXCEPT !.at = attempt])
             /\ UNCHANGED <<dagjob, status>>
    /\ UNCHANGED <<loopVars, watchVars, jobs, nodes, herr, shellVars, intAt>>

\* condor.py:144-146  the query issued again after IOError
GdsHistoryAfterIOError ==
    /\ pc = "gds_history_io"
    /\ HistoryAgain

\* condor.py:147-148  sleep(10) after KeyError
GdsSleep10 ==
    /\ pc = "gds_sleep10"
    /\ Goes("gds_history_key")
    /\ ev' = Append(ev, Ev("sleep10", 0))
    /\ UNCHANGED <<loopVars, watchVars, jobs, dagjob, nodes, status, herr, shellVars, intAt>>

\* condor.py:149-150  the query issued again after KeyError
GdsHistoryAfterKeyError ==
    /\ pc = "gds_history_key"
    /\ HistoryAgain

(***************************************************************************)
(* condor.py:151-162  the condor_history subprocess                        *)
(***************************************************************************)
GdsHistoryShell ==
    /\ pc = "gds_history_shell"
    /\ ev' = Append(ev, Ev("history_shell", 0))
    /\ \E v \in (IF python = 0 THEN PythonVersions ELSE {python}) :
        /\ python' = v
        /\ \E o \in ShellOutcomes :
            /\ history' = o
            /\ IF o.kind = "raise"
                  THEN /\ Escapes([o.exc EXCEPT !.at = attempt])
                       /\ UNCHANGED <<dagjob, status>>
               ELSE IF ~rstrip_accepts(check_output_type(v))
                  THEN /\ Escapes(Exc("TypeError", <<"a", "bytes-like", "object">>, attempt))
                       /\ UNCHANGED <<dagjob, status>>
               ELSE LET j == IntValues(get_condor_history_shell(o.jobs)[1])
                    IN  IF j.ok
                           THEN FromHistory(<<j.val>>)
                           ELSE /\ Escapes(Exc("ValueError", <<"invalid", "literal">>, attempt))
                                /\ UNCHANGED <<dagjob, status>>
    /\ UNCHANGED <<loopVars, watchVars, jobs, nodes, herr, intAt>>

(***************************************************************************)
(* condor.py:72-79  iterate_dag_status: sleep(1), a new Schedd, and the    *)
(* second call of get_dag_status up to its query                           *)
(***************************************************************************)
ItSleep1 ==
    /\ pc = "it_sleep1"
    /\ schedd' = reconnect(nschedd)
    /\ nschedd' = reconnect(nschedd)
    /\ attempt' = 2
    /\ pc' = "gds_find_job"
    /\ ev' = <<Ev("sleep1_it", 0), Ev("connect", reconnect(nschedd)),
               Ev("get_dag_status", reconnect(nschedd))>>
    /\ jobs' = NoCall
    /\ dagjob' = EmptyAd
    /\ nodes' = <<>>
    /\ herr' = NoExc
    /\ history' = NoCall
    /\ UNCHANGED python
    /\ UNCHANGED <<e, status, polls, gdsExc, intAt, watchVars, endVars>>

(***************************************************************************)
(* dagwatch.py:112-117  watch_dag: the body of the loop for one snapshot   *)
(***************************************************************************)
Report ==
    /\ pc = "it_yield"
    /\ job' = status
    /\ emitted' = report(old, status)
    /\ prevOld' = old
    /\ old' = status
    /\ pc' = "it_resume"
    /\ ev' = <<Ev("yield", 0)>>
    /\ jobs' = NoCall
    /\ dagjob' = EmptyAd
    /\ nodes' = <<>>
    /\ herr' = NoExc
    /\ history' = NoCall
    /\ UNCHANGED python
    /\ UNCHANGED <<loopVars, e, status, gdsExc, intAt, header, footer, endVars>>

(***************************************************************************)
(* condor.py:83-85  iterate_dag_status after the yield                     *)
(***************************************************************************)
Resume ==
    /\ pc = "it_resume"
    /\ pc' = after_yield(status)
    /\ prevOld' = EmptyAd
    /\ emitted' = <<>>
    /\ e' = NoExc
    /\ gdsExc' = NoExc
    /\ UNCHANGED <<loopVars, jobs, dagjob, nodes, status, old, job, ev, herr,
                   shellVars, intAt, header, footer, endVars>>

(***************************************************************************)
(* condor.py:85, 69-71  sleep(interval), then the next poll up to its      *)
(* query                                                                   *)
(***************************************************************************)
IntervalSleep ==
    /\ pc = "it_sleep"
    /\ polls < MaxPolls
    /\ polls' = polls + 1
    /\ attempt' = 1
    /\ pc' = "gds_find_job"
    /\ ev' = <<Ev("sleep_interval", 0), Ev("get_dag_status", schedd)>>
    /\ UNCHANGED <<schedd, nschedd, e, jobs, dagjob, nodes, status, gdsExc,
                   herr, shellVars, intAt, watchVars, endVars>>

(***************************************************************************)
(* dagwatch.py:119-125, __main__.py:70  the footer and the return          *)
(***************************************************************************)
Footer ==
    /\ pc = "wd_footer"
    /\ footer' = footer_severity(job["exitcode"])
    /\ wdResult' = Returned(job["exitcode"])
    /\ exitcode' = job["exitcode"]
    /\ pc' = "main_exit"
    /\ UNCHANGED <<loopVars, e, jobs, dagjob, nodes, status, old, job, prevOld,
                   emitted, ev, gdsExc, herr, shellVars, intAt, header, exitStatus>>

(***************************************************************************)
(* __main__.py:76-77  the end of the script                                *)
(***************************************************************************)
MainExit ==
    /\ pc = "main_exit"
    /\ exitStatus' = main_exit_status(exitcode)
    /\ pc' = "exited"
    /\ UNCHANGED <<loopVars, e, jobs, dagjob, nodes, status, ev, gdsExc, herr,
                   shellVars, intAt, watchVars, wdResult, exitcode>>

(***************************************************************************)
(* KeyboardInterrupt while watch_dag runs.  No except clause of            *)
(* get_dag_status names it (condor.py:137, 144-151); inside a call of      *)
(* get_dag_status it then meets the clauses of iterate_dag_status          *)
(* (condor.py:72, 80), elsewhere it leaves watch_dag at once.              *)
(***************************************************************************)
InGds ==
    pc \in {"gds_find_job", "gds_find_jobs", "gds_sleep1", "gds_history",
            "gds_history_io", "gds_sleep10", "gds_history_key",
            "gds_history_shell"}

InWatch ==
    InGds \/ pc \in {"wd_find_job", "it_sleep1", "it_yield", "it_resume",
                     "it_sleep", "wd_footer"}

Interrupt ==
    /\ InWatch
    /\ intAt' = pc
    /\ LET x == Exc("KeyboardInterrupt", <<>>, attempt)
       IN  IF InGds THEN Escapes(x)
           ELSE /\ Leaves(x)
                /\ UNCHANGED <<e, gdsExc>>
    \* the frames of get_dag_status and of the loop body are unwound
    /\ jobs' = NoCall
    /\ dagjob' = EmptyAd
    /\ nodes' = <<>>
    /\ status' = EmptyAd
    /\ old' = EmptyAd
    /\ job' = EmptyAd
    /\ prevOld' = EmptyAd
    /\ emitted' = <<>>
    /\ ev' = <<>>
    /\ herr' = NoExc
    /\ history' = NoCall
    /\ UNCHANGED python
    /\ UNCHANGED <<loopVars, header, footer>>

Next ==
    \/ WatchFindJob
    \/ GdsFindJob
    \/ GdsFindJobs
    \/ GdsSleep1
    \/ GdsHistory
    \/ GdsHistoryAfterIOError
    \/ GdsSleep10
    \/ GdsHistoryAfterKeyError
    \/ GdsHistoryShell
    \/ ItSleep1
    \/ Report
    \/ Resume
    \/ IntervalSleep
    \/ Footer
    \/ MainExit
    \/ Interrupt

Spec == Init /\ [][Next]_vars

(***************************************************************************)
(* The run in which the watch is not cut short: no KeyboardInterrupt, the  *)
(* scheduler calls raise nothing that leaves watch_dag (what they raise is *)
(* recovered by the retries of condor.py:72-79 and 144-155), and the DAG   *)
(* has left the live queue by the last poll that is explored.  Every       *)
(* blocking call returns, so the sequential program always takes its next  *)
(* step.                                                                   *)
(***************************************************************************)
EnvOK ==
    /\ wdResult'.kind # "raise"
    /\ (pc = "gds_find_job" /\ polls = MaxPolls) => pc' # "gds_find_jobs"

LiveNext ==
    \/ WatchFindJob /\ EnvOK
    \/ GdsFindJob /\ EnvOK
    \/ GdsFindJobs /\ EnvOK
    \/ GdsSleep1 /\ EnvOK
    \/ GdsHistory /\ EnvOK
    \/ GdsHistoryAfterIOError /\ EnvOK
    \/ GdsSleep10 /\ EnvOK
    \/ GdsHistoryAfterKeyError /\ EnvOK
    \/ GdsHistoryShell /\ EnvOK
    \/ ItSleep1 /\ EnvOK
    \/ Report /\ EnvOK
    \/ Resume /\ EnvOK
    \/ IntervalSleep /\ EnvOK
    \/ Footer /\ EnvOK
    \/ MainExit /\ EnvOK

LiveSpec == Init /\ [][LiveNext]_vars /\ WF_vars(LiveNext)

(***************************************************************************)
(* Properties                                                              *)
(***************************************************************************)
\* the program points at which a poll is under way: inside get_dag_status,
\* in the sleep(1) before the second call, in sleep(interval)
PollingPoints == {"gds_find_job", "gds_find_jobs", "gds_sleep1", "gds_history",
                  "gds_history_io", "gds_sleep10", "gds_history_key",
                  "gds_history_shell", "it_sleep1", "it_sleep"}

HistoryPoints == {"gds_history", "gds_history_io", "gds_history_key",
                  "gds_history_shell"}

NineFields == {"total", "done", "queued", "ready", "unready", "failed",
               "held", "running", "idle"}

Interrupted == intAt # "none"

\* C1: once get_dag_status has returned a status with 'exitcode', the status
\* is yielded to watch_dag and the loop is over: the program is never again
\* inside get_dag_status or a sleep, no poll is started, no Schedd is made;
\* and once watch_dag has received a status with 'exitcode' it receives no
\* other status (no snapshot follows a terminated one).
C1_TerminalSnapshotEndsLoop ==
    /\ [][HasExitCode(status) =>
            /\ pc' \notin PollingPoints
            /\ polls' = polls
            /\ attempt' = attempt
            /\ nschedd' = nschedd
            /\ schedd' = schedd
            /\ status' = status \/ Interrupted'
            /\ pc = "it_yield" => (pc' = "it_resume" /\ job' = status) \/ Interrupted'
         ]_vars
    /\ [][HasExitCode(job) => job' = job \/ Interrupted']_vars

\* C1 witness: watch_dag returned after at least one active snapshot
C1_Witness ==
    /\ pc = "exited"
    /\ wdResult.kind = "return"
    /\ polls >= 2
    /\ HasExitCode(job)

\* C2: watch_dag returns only once a status with 'exitcode' was received
\* from the generator; it returns that exitcode, and the exit status of the
\* process is that value.
C2_ReturnsExitCode ==
    /\ wdResult.kind = "return" =>
            /\ pc \in {"main_exit", "exited"}
            /\ HasExitCode(job)
            /\ job = status
            /\ wdResult.val = job["exitcode"]
            /\ exitcode = wdResult.val
    /\ (pc = "exited" /\ wdResult.kind = "return") => exitStatus = wdResult.val

\* C2 witness: the process ended with the DAG's non-zero exit code
C2_Witness ==
    /\ pc = "exited"
    /\ wdResult.kind = "return"
    /\ wdResult.val > 1
    /\ exitStatus = wdResult.val

\* C3: when a history query (after "No jobs found") gives a record with the
\* six counters and ExitCode, get_dag_status returns the status made of the
\* six counters of that record, held = running = idle = 0 and exitcode =
\* ExitCode; and watch_dag returns the exitcode of that status.
C3_ArchiveRecordBecomesTermination ==
    /\ [][(pc \in HistoryPoints /\ Range(HistoryFields) \subseteq DOMAIN dagjob') =>
            /\ pc' = "it_yield"
            /\ DOMAIN status' = NineFields \cup {"exitcode"}
            /\ \A i \in 1..Len(states) : status'[states[i]] = dagjob'[classads[i]]
            /\ status'["held"] = 0
            /\ status'["running"] = 0
            /\ status'["idle"] = 0
            /\ status'["exitcode"] = dagjob'["ExitCode"]
         ]_vars
    /\ [][(pc = "wd_footer" /\ wdResult'.kind = "return") =>
            wdResult'.val = status["exitcode"]]_vars

\* C3 witness: the first history query gave a record with ExitCode 1 and
\* get_dag_status returned
C3_Witness ==
    /\ pc = "it_yield"
    /\ "ExitCode" \in DOMAIN dagjob
    /\ dagjob["ExitCode"] = 1
    /\ status["exitcode"] = 1
    /\ ev[Len(ev)].op = "history"
    /\ ev[Len(ev) - 1].op = "sleep1_gds"

C5_FirstSnapshotReported ==
    (pc = "it_resume" /\ prevOld = InitialOld) =>
        emitted = << <<job["unready"], job["ready"], job["idle"], job["running"],
                       job["held"], job["failed"], job["done"]>> >>

\* C5 witness: a first snapshot whose tracked fields are all 0
C5_Witness ==
    /\ pc = "it_resume"
    /\ prevOld = InitialOld
    /\ \A i \in 1..Len(NODE_STATES) : job[NODE_STATES[i]] = 0
    /\ Len(emitted) = 1

\* C6: find_job gives the job when exactly one job matches; with no match
\* it raises a RuntimeError whose message starts with "No jobs found", which
\* get_dag_status takes as the end of the DAG (it goes on to the history
\* query); with several matches it raises the RuntimeError "Multiple jobs
\* found ...", which get_dag_status does not take as the end of the DAG and
\* which leaves watch_dag.
C6_FindJobFaults ==
    [][(pc \in {"wd_find_job", "gds_find_job"} /\ jobs'.kind = "return") =>
        LET n == Len(jobs'.jobs)
        IN  /\ (n = 1 /\ pc = "gds_find_job") =>
                    /\ pc' = "gds_find_jobs"
                    /\ dagjob' = jobs'.jobs[1]
            /\ (n = 1 /\ pc = "wd_find_job") =>
                    /\ pc' = "gds_find_job"
                    /\ header'
            /\ (n = 0 /\ pc = "gds_find_job") =>
                    /\ pc' = "gds_sleep1"
                    /\ wdResult' = Running
            /\ (n = 0 /\ pc = "wd_find_job") =>
                    /\ wdResult'.kind = "raise"
                    /\ wdResult'.exc.type = "RuntimeError"
                    /\ SubSeq(wdResult'.exc.msg, 1, 3) = <<"No", "jobs", "found">>
            /\ n >= 2 =>
                    /\ pc' = "exited"
                    /\ wdResult' = Raised(Exc("RuntimeError",
                           <<"Multiple", "jobs", "found", "matching", "constraints">>,
                           attempt))
      ]_vars

\* C6 witness: the live-queue lookup of a poll found two jobs
C6_Witness ==
    /\ pc = "exited"
    /\ polls >= 1
    /\ jobs.kind = "return"
    /\ Len(jobs.jobs) = 2
    /\ wdResult.exc.msg[1] = "Multiple"

C8_WatchDagReturnsZero ==
    intAt = "it_sleep" => (wdResult.kind = "return" /\ wdResult.val = 0)

\* C8 amended: a KeyboardInterrupt in sleep(interval) leaves watch_dag as an
\* exception (watch_dag returns nothing and logs no exit summary); __main__
\* catches it, sets exitcode = 0, and the process ends with status 0.
C8_InterruptInSleepExitsZero ==
    intAt = "it_sleep" =>
        /\ wdResult = Raised(Exc("KeyboardInterrupt", <<>>, attempt))
        /\ footer = "none"
        /\ pc \in {"main_exit", "exited"}
        /\ exitcode = 0
        /\ pc = "exited" => exitStatus = 0

\* C8 witness: the process ended after an interrupt in sleep(interval)
C8_Witness ==
    /\ intAt = "it_sleep"
    /\ pc = "exited"
    /\ exitStatus = 0

\* C9: a KeyboardInterrupt at any point of watch_dag (first lookup, a query,
\* a sleep) is not caught by iterate_dag_status or get_dag_status: it leaves
\* watch_dag at once, no poll, query or Schedd follows, and the process ends
\* with status 0.
C9_InterruptEndsWatch ==
    /\ [](Interrupted =>
            /\ pc \in {"main_exit", "exited"}
            /\ wdResult.kind = "raise"
            /\ wdResult.exc.type = "KeyboardInterrupt"
            /\ exitcode = 0
            /\ pc = "exited" => exitStatus = 0)
    /\ [][Interrupted' =>
            /\ polls' = polls
            /\ attempt' = attempt
            /\ nschedd' = nschedd
            /\ schedd' = schedd
            /\ pc' = (IF Interrupted THEN "exited" ELSE "main_exit")
         ]_vars

\* C9 witness: the process ended after an interrupt in a history query
C9_Witness ==
    /\ intAt = "gds_history"
    /\ pc = "exited"
    /\ exitStatus = 0

\* C10 as stated: when the first call of get_dag_status raised IOError and
\* the second call fails too, the exception that reaches the caller is the
\* first one.
C10_OriginalFaultPropagates ==
    (pc = "exited" /\ attempt = 2 /\ e.type = "IOError" /\ ~Interrupted
        /\ wdResult.kind = "raise") => wdResult.exc = e

\* C10 amended: when a call of get_dag_status raises IOError, the loop sleeps
\* 1 s, makes a new Schedd and calls get_dag_status once more, and never a
\* third time; if the second call returns, its status is yielded and no
\* fault has surfaced; if it raises IOError the first IOError is propagated;
\* if it raises anything else, that second exception is propagated.
C10_RetryOnce ==
    /\ pc = "it_sleep1" => (attempt = 1 /\ e = gdsExc /\ wdResult = Running)
    /\ (attempt = 2 /\ e.type = "IOError" /\ ~Interrupted) =>
            /\ e.at = 1
            /\ pc # "it_sleep1"
            /\ pc \in PollingPoints \cup {"it_yield", "exited"} =>
                    /\ Len(ev) >= 3
                    /\ SubSeq(ev, 1, 3) = <<Ev("sleep1_it", 0), Ev("connect", schedd),
                                            Ev("get_dag_status", schedd)>>
                    /\ schedd = nschedd
                    /\ \A i \in 4..Len(ev) : ev[i].op \notin {"get_dag_status", "sleep1_it"}
            /\ pc \in PollingPoints \cup {"it_yield", "it_resume"} => wdResult = Running
            /\ pc = "exited" =>
                    /\ gdsExc.at = 2
                    /\ wdResult = Raised(IF gdsExc.type = "IOError" THEN e ELSE gdsExc)

\* C10 witness: both calls raised IOError and the first one was propagated
C10_Witness ==
    /\ pc = "exited"
    /\ attempt = 2
    /\ e.type = "IOError"
    /\ gdsExc.type = "IOError"
    /\ gdsExc.at = 2
    /\ wdResult = Raised(e)

\* C11: when the live-queue lookup of a poll fails with a RuntimeError that
\* is not "No jobs found" (the scheduler refused the query, or several jobs
\* matched), nothing is retried: the fault leaves get_dag_status, the
\* generator and watch_dag in that step, with no sleep, no new Schedd, no
\* second lookup, no history query and no further poll; no status is made,
\* no exit summary is logged, and the process ends at once with a non-zero
\* status, after which nothing happens.
C11_FatalLookupFault ==
    /\ [][(/\ pc = "gds_find_job"
            /\ \/ (jobs'.kind = "raise" /\ jobs'.exc.type = "RuntimeError")
               \/ (jobs'.kind = "return" /\ Len(jobs'.jobs) > 1)) =>
            /\ pc' = "exited"
            /\ wdResult'.kind = "raise"
            /\ wdResult'.exc.type = "RuntimeError"
            /\ wdResult'.exc.msg =
                    (IF jobs'.kind = "raise" THEN jobs'.exc.msg ELSE MultipleMsg)
            /\ wdResult'.exc.at = attempt
            /\ exitStatus' # 0
            /\ footer' = "none"
            /\ status' = status
            /\ ~HasExitCode(status')
            /\ <<schedd', nschedd', attempt', polls'>> = <<schedd, nschedd, attempt, polls>>
            /\ ev' = Append(ev, Ev("query_job", schedd))
         ]_vars
    /\ [][pc = "exited" => FALSE]_vars
    /\ [](pc = "exited" /\ wdResult.kind = "raise" /\ ~Interrupted =>
            exitStatus # 0 /\ footer = "none")

\* C11 witness: the lookup of the second poll was refused by the scheduler
\* and the process ended with status 1
C11_Witness ==
    /\ pc = "exited"
    /\ polls = 2
    /\ attempt = 1
    /\ jobs.kind = "raise"
    /\ jobs.exc.msg = QueryFailedMsg
    /\ wdResult.exc.msg = QueryFailedMsg
    /\ exitStatus = 1
    /\ ev[Len(ev)].op = "query_job"

\* the number of events op in the trace of the current call
CountOp(op) == Cardinality({i \in 1..Len(ev) : ev[i].op = op})

\* the history ad is complete: the six counters and ExitCode
CompleteRecord(ad) == Range(HistoryFields) \subseteq DOMAIN ad

C13_MissingFieldWaits10 ==
    (/\ pc \in {"it_sleep1", "exited"}
     /\ gdsExc.type = "KeyError"
     /\ gdsExc.at = attempt
     /\ CountOp("history") >= 1) =>
        /\ CountOp("sleep10") = 1
        /\ ev[Len(ev)].op = "history"
        /\ ev[Len(ev) - 1].op = "sleep10"

\* the first history query raised a RuntimeError whose message holds
\* 'timeout' or 'cowardly'
TimeoutFault(x) ==
    /\ x.type = "RuntimeError"
    /\ \E i \in 1..Len(x.msg) : x.msg[i] \in {"Timeout", "Cowardly"}

\* condor_history printed a first line with one integer per attribute
CompleteRow(o) ==
    /\ o.kind = "return"
    /\ Len(o.jobs) >= 1
    /\ Len(o.jobs[1]) = Len(HistoryFields)
    /\ \A i \in 1..Len(HistoryFields) : o.jobs[1][i] >= 0

\* C14: when the first history query raises a RuntimeError that signals a
\* timeout (or 'cowardly'), get_dag_status runs the condor_history
\* subprocess, and when that prints the row of the six counters and ExitCode
\* the call returns the status made of those seven integers.
C14_ShellFallbackBuildsRecord ==
    (TimeoutFault(herr) /\ CompleteRow(history)) =>
        /\ pc = "it_yield"
        /\ \A i \in 1..Len(states) : status[states[i]] = history.jobs[1][i]
        /\ status["exitcode"] = history.jobs[1][Len(HistoryFields)]

\* C14 under Python 2: after a timeout RuntimeError from the first history
\* query the subprocess is run exactly once in the call and no history query
\* follows; a complete row gives the status of the six counters, exitcode and
\* held = running = idle = 0; a RuntimeError that signals neither timeout nor
\* 'cowardly' leaves get_dag_status and watch_dag at once with no subprocess,
\* no sleep and no further query.
C14_ShellFallbackPython2 ==
    /\ [][(pc = "gds_history" /\ TimeoutFault(herr')) =>
            /\ pc' = "gds_history_shell"
            /\ ev' = Append(ev, Ev("history", schedd))
            /\ wdResult' = Running
         ]_vars
    /\ [][(pc = "gds_history_shell" /\ ~Interrupted') =>
            /\ ev' = Append(ev, Ev("history_shell", 0))
            /\ pc' \in {"it_yield", "it_sleep1", "exited"}
            /\ (python' = 2 /\ CompleteRow(history')) =>
                    /\ pc' = "it_yield"
                    /\ DOMAIN status' = NineFields \cup {"exitcode"}
                    /\ \A i \in 1..Len(states) : status'[states[i]] = history'.jobs[1][i]
                    /\ status'["exitcode"] = history'.jobs[1][Len(HistoryFields)]
                    /\ status'["held"] = 0 /\ status'["running"] = 0
                    /\ status'["idle"] = 0
         ]_vars
    /\ [](pc = "gds_history_shell" => TimeoutFault(herr))
    /\ [](CountOp("history_shell") <= 1)
    /\ [](CountOp("history_shell") = 1 => CountOp("history") = 1 /\ CountOp("sleep10") = 0)
    /\ [][(pc = "gds_history" /\ herr'.type = "RuntimeError" /\ ~TimeoutFault(herr')) =>
            /\ pc' = "exited"
            /\ wdResult' = Raised([herr' EXCEPT !.at = attempt])
            /\ exitStatus' = 1
            /\ ev' = Append(ev, Ev("history", schedd))
            /\ <<schedd', nschedd', attempt', polls'>> = <<schedd, nschedd, attempt, polls>>
         ]_vars

\* C14 witness: after a timeout the subprocess printed the row with ExitCode
\* 2 under Python 2 and the call returned it
C14_Witness ==
    /\ pc = "it_yield"
    /\ python = 2
    /\ herr.msg = TimeoutMsg
    /\ CompleteRow(history)
    /\ status["exitcode"] = 2
    /\ ev[Len(ev)].op = "history_shell"

\* C15: every poll after the first is started by exactly one
\* sleep(interval), which runs after watch_dag's loop body has been run for
\* the previous status (job = old = status) and before get_dag_status is
\* called again; the first poll starts with no sleep(interval), the second
\* call of get_dag_status within a poll is not preceded by one, and
\* sleep(interval) is never reached with a status that carries 'exitcode'.
C15_OneIntervalSleepBetweenPolls ==
    /\ pc = "it_sleep" =>
            /\ polls >= 1
            /\ ~HasExitCode(status)
            /\ job = status
            /\ old = status
            /\ ev = <<Ev("yield", 0)>>
    /\ (InGds /\ attempt = 1 /\ polls = 1) =>
            /\ CountOp("sleep_interval") = 0
            /\ ev[1].op = "connect"
            /\ ev[2].op = "get_dag_status"
            /\ CountOp("get_dag_status") = 1
            /\ old = InitialOld
    /\ (InGds /\ attempt = 1 /\ polls > 1) =>
            /\ CountOp("sleep_interval") = 1
            /\ ev[1].op = "sleep_interval"
            /\ ev[2].op = "get_dag_status"
            /\ CountOp("get_dag_status") = 1
            /\ old = job
            /\ old # InitialOld
            /\ ~HasExitCode(old)
    /\ (InGds /\ attempt = 2) => CountOp("sleep_interval") = 0
    /\ HasExitCode(status) => pc \in {"it_yield", "it_resume", "wd_footer", "main_exit", "exited"}

\* C15 witness: the second poll is under way after one sleep(interval) that
\* followed the report of the first status
C15_Witness ==
    /\ pc = "gds_find_jobs"
    /\ polls = 2
    /\ attempt = 1
    /\ ev[1].op = "sleep_interval"
    /\ old = job
    /\ old # InitialOld

\* the program is inside a poll cycle: in a call of get_dag_status or in the
\* sleep(1) between the two calls
InCycle == InGds \/ pc = "it_sleep1"

\* the largest number of blocking operations a call of get_dag_status still
\* has before it, from each of its program points
StepsLeft(p) ==
    CASE p = "gds_find_job" -> 5
      [] p = "gds_sleep1" -> 4
      [] p = "gds_history" -> 3
      [] p = "gds_sleep10" -> 2
      [] p \in {"gds_find_jobs", "gds_history_io", "gds_history_key",
                "gds_history_shell"} -> 1
      [] OTHER -> 0

\* the same for a poll cycle: the second call, the sleep(1) before it, and
\* the first call
CycleStepsLeft ==
    IF pc = "it_sleep1" THEN StepsLeft("gds_find_job") + 1
    ELSE IF InGds /\ attempt = 1 THEN StepsLeft("gds_find_job") + 1 + StepsLeft(pc)
    ELSE StepsLeft(pc)

\* C16: a poll cycle ends whatever the scheduler raises: every step of a
\* cycle brings it nearer to its end (no step starts a third call of
\* get_dag_status or goes back to an earlier query); a cycle calls
\* get_dag_status at most twice, and a call issues at most one live-queue
\* lookup, one node enumeration, two history queries and one condor_history
\* subprocess; the cycle ends either at the yield of one status or with an
\* exception that leaves watch_dag.
C16_PollCycleTerminates ==
    /\ [][InCycle =>
            /\ CycleStepsLeft' < CycleStepsLeft
            /\ InCycle' \/ pc' \in {"it_yield", "exited", "main_exit"}
            /\ polls' = polls
         ]_vars
    /\ [][pc = "it_yield" => pc' \in {"it_resume", "main_exit"} /\ polls' = polls]_vars
    /\ [](attempt <= 2)
    /\ [](InCycle \/ pc \in {"it_yield", "exited"} =>
            /\ CountOp("get_dag_status") <= 1
            /\ CountOp("query_job") <= 1
            /\ CountOp("query_nodes") <= 1
            /\ CountOp("history") <= 2
            /\ CountOp("history_shell") <= 1
            /\ CountOp("history") + CountOp("history_shell") <= 2
            /\ CountOp("sleep1_gds") <= 1
            /\ CountOp("sleep10") <= 1
            /\ CountOp("sleep1_it") <= 1
            /\ CountOp("connect") <= 1)
    /\ [](pc = "it_sleep1" => attempt = 1)

\* C16 witness: a cycle that used everything: the first call raised KeyError
\* after its history query, and the second call slept 10 s and queried the
\* history twice before it raised
C16_Witness ==
    /\ pc = "exited"
    /\ attempt = 2
    /\ e.type = "KeyError"
    /\ CountOp("sleep1_it") = 1
    /\ CountOp("history") = 2
    /\ CountOp("sleep10") = 1
    /\ wdResult.kind = "raise"
    /\ ~Interrupted

\* C17: in a run that no fault and no interrupt cuts short and in which the
\* DAG leaves the live queue, watch_dag eventually receives a status with
\* 'exitcode', returns it, and the process ends with it; and as long as the
\* live-queue lookup finds the DAG the status has no 'exitcode', the loop
\* goes on to sleep(interval) and the next poll, and watch_dag does not
\* return.
C17_WatchEventuallyReturns ==
    /\ <>(/\ pc = "exited"
          /\ wdResult.kind = "return"
          /\ HasExitCode(job)
          /\ wdResult.val = job["exitcode"])
    /\ [][wdResult'.kind = "return" => HasExitCode(job')]_vars
    /\ [][(pc' = "it_yield" /\ jobs'.kind = "return" /\ Len(jobs'.jobs) = 1) =>
            /\ ~HasExitCode(status')
            /\ wdResult' = Running]_vars
    /\ [][(pc = "it_resume" /\ ~HasExitCode(status)) =>
            (pc' = "it_sleep" /\ wdResult' = Running)]_vars
    /\ [][pc = "it_sleep" =>
            (pc' = "gds_find_job" /\ polls' = polls + 1 /\ wdResult' = Running)]_vars

\* C17 witness: the DAG was found in the live queue by the first poll, left
\* it later, and watch_dag returned its exit code
C17_Witness ==
    /\ pc = "exited"
    /\ wdResult.kind = "return"
    /\ polls >= 2
    /\ wdResult.val = 1
    /\ exitStatus = 1

\* C18: the exit summary is logged exactly once, in the step in which
\* watch_dag returns, which follows the last run of the loop body and is
\* followed by no poll; it is logged with logger.critical if and only if the
\* exitcode is not 0 and with logger.info if and only if it is 0; as long as
\* watch_dag has not received a status with 'exitcode' no exit summary is
\* logged.
C18_OneExitSummary ==
    /\ [][footer' # footer =>
            /\ footer = "none"
            /\ pc = "wd_footer"
            /\ pc' = "main_exit"
            /\ HasExitCode(job)
            /\ wdResult = Running
            /\ wdResult' = Returned(job["exitcode"])
            /\ polls' = polls
         ]_vars
    /\ [][wdResult'.kind = "return" =>
            /\ footer' \in {"critical", "info"}
            /\ footer' = "critical" <=> wdResult'.val # 0
            /\ footer' = "info" <=> wdResult'.val = 0
            /\ pc' \in {"main_exit", "exited"}
         ]_vars
    /\ [][footer' # "none" => (pc' \in {"main_exit", "exited"} /\ HasExitCode(job'))]_vars
    /\ [][(pc' \in PollingPoints \cup {"wd_find_job", "it_yield", "it_resume", "wd_footer"}
            \/ ~HasExitCode(job')) => footer' = "none"]_vars

\* C18 witness: the DAG exited with status 2 after two polls and the summary
\* was logged with logger.critical
C18_Witness ==
    /\ pc = "exited"
    /\ footer = "critical"
    /\ wdResult = Returned(2)
    /\ polls = 2

\* C19 as stated: every retry that follows a transient fault is issued on a
\* Schedd made after the fault: the second call of get_dag_status of a poll
\* runs on a Schedd made for it, and a history query re-issued after an
\* IOError of the history query runs on another Schedd than the query that
\* failed.
C19_NewHandleForEveryRetry ==
    /\ (attempt = 2 /\ pc \in PollingPoints \cup {"it_yield"}) =>
            /\ Len(ev) >= 3
            /\ ev[2] = Ev("connect", schedd)
            /\ schedd = nschedd
    /\ \A i \in 1..(Len(ev) - 1) :
            (herr.type = "IOError" /\ ev[i].op = "history" /\ ev[i + 1].op = "history")
                => ev[i + 1].h # ev[i].h

\* C19 amended: when an IOError or KeyError leaves the first call of
\* get_dag_status of a poll (whether it came from the live-queue lookup, the
\* node enumeration or a history query), iterate_dag_status drops its Schedd
\* and makes a new one before it calls get_dag_status again; that call and
\* every later poll issue all their queries on the newest Schedd, and the
\* Schedd in use only ever changes to a newly made one, so a dropped Schedd
\* is never used again.  An IOError of the first history query of a call is
\* handled before that, inside get_dag_status: the query is re-issued on the
\* same Schedd and no Schedd is made.
C19_NewHandleOnPollRetry ==
    /\ [][(pc # "it_sleep1" /\ pc' = "it_sleep1") =>
            /\ InGds
            /\ attempt = 1
            /\ e'.type \in {"IOError", "KeyError"}
            /\ <<schedd', nschedd'>> = <<schedd, nschedd>>
         ]_vars
    /\ [][(pc = "it_sleep1" /\ ~Interrupted') =>
            /\ nschedd' = nschedd + 1
            /\ schedd' = nschedd'
            /\ schedd' > schedd
            /\ ev' = <<Ev("sleep1_it", 0), Ev("connect", schedd'),
                       Ev("get_dag_status", schedd')>>
            /\ pc' = "gds_find_job"
            /\ attempt' = 2
         ]_vars
    /\ [][schedd' # schedd =>
            /\ pc \in {"wd_find_job", "it_sleep1"}
            /\ schedd' > schedd
            /\ schedd' = nschedd'
            /\ nschedd' > nschedd
         ]_vars
    /\ [][(pc = "it_sleep" /\ ~Interrupted') =>
            /\ <<schedd', nschedd'>> = <<schedd, nschedd>>
            /\ ev'[Len(ev')] = Ev("get_dag_status", schedd)
         ]_vars
    /\ [](\A i \in 1..Len(ev) : ev[i].h \in {0, schedd})
    /\ [](schedd # 0 => schedd = nschedd)
    /\ [][(pc = "gds_history" /\ herr'.type = "IOError") =>
            /\ pc' = "gds_history_io"
            /\ <<schedd', nschedd'>> = <<schedd, nschedd>>
         ]_vars
    /\ [][(pc = "gds_history_io" /\ ~Interrupted') =>
            /\ ev[Len(ev)] = Ev("history", schedd)
            /\ ev' = Append(ev, Ev("history", schedd))
            /\ <<schedd', nschedd'>> = <<schedd, nschedd>>
         ]_vars

\* C19 witness: the first call of the second poll raised IOError, the second
\* call ran on the third Schedd made; its first history query raised IOError
\* and the query re-issued on that same Schedd gave the record
C19_Witness ==
    /\ pc = "it_yield"
    /\ polls = 2
    /\ attempt = 2
    /\ e.type = "IOError"
    /\ schedd = 4
    /\ nschedd = 4
    /\ ev[2] = Ev("connect", 4)
    /\ herr.type = "IOError"
    /\ CountOp("history") = 2
    /\ \A i \in 3..Len(ev) : ev[i].h \in {0, 4}
    /\ HasExitCode(status)

\* C20: watch_dag looks the DAG up once before the header and before the
\* generator is started; when that lookup does not give exactly one job
\* (the query raised IOError or RuntimeError, no job matched because the DAG
\* has left the queue, or several matched) the exception leaves watch_dag in
\* that very step: nothing is retried or slept, no header is logged, no call
\* of get_dag_status and no history query is made, no status is received and
\* no exit summary logged, watch_dag returns no exitcode, and nothing
\* happens afterwards; the header is logged, and polls are made, only when
\* the lookup gave exactly one job.
C20_FirstLookupOutsideRetry ==
    /\ [][(/\ pc = "wd_find_job"
            /\ ~Interrupted'
            /\ (jobs'.kind = "raise" \/ Len(jobs'.jobs) # 1)) =>
            /\ wdResult'.kind = "raise"
            /\ wdResult'.exc.type = IF jobs'.kind = "raise" THEN jobs'.exc.type
                                    ELSE "RuntimeError"
            /\ wdResult'.exc.msg = IF jobs'.kind = "raise" THEN jobs'.exc.msg
                                   ELSE IF Len(jobs'.jobs) = 0 THEN NoJobsMsg
                                   ELSE MultipleMsg
            /\ pc' = "exited"
            /\ exitStatus' # 0
            /\ header' = FALSE
            /\ polls' = 0
            /\ attempt' = 0
            /\ ev' = <<>>
            /\ schedd' = 0
            /\ nschedd' = 1
            /\ status' = EmptyAd
            /\ job' = EmptyAd
            /\ emitted' = <<>>
            /\ footer' = "none"
         ]_vars
    /\ [][(pc = "wd_find_job" /\ ~Interrupted'
            /\ jobs'.kind = "return" /\ Len(jobs'.jobs) = 1) =>
            /\ header' = TRUE
            /\ polls' = 1
            /\ pc' = "gds_find_job"
            /\ wdResult' = Running
         ]_vars
    /\ [][(pc = "exited" /\ polls = 0) => UNCHANGED vars]_vars
    /\ [](header => polls >= 1)
    /\ [](polls = 0 => (ev = <<>> /\ footer = "none" /\ wdResult.kind # "return"
                        /\ status = EmptyAd /\ pc \in {"wd_find_job", "main_exit", "exited"}))

\* C20 witness: the DAG had left the queue when watch_dag looked it up; the
\* "No jobs found" RuntimeError ended the process with no header and no poll
C20_Witness ==
    /\ pc = "exited"
    /\ jobs = Return(<<>>)
    /\ wdResult.kind = "raise"
    /\ wdResult.exc.msg = NoJobsMsg
    /\ header = FALSE
    /\ polls = 0
    /\ exitStatus = 1

\* C21: when the DAG has left the queue and a history query gives an empty
\* list, the IndexError of [0] is caught by no except clause of
\* get_dag_status and not by iterate_dag_status: it leaves watch_dag in the
\* step of that query and ends the process with a non-zero status; the
\* history query is the last operation of the run (no sleep(10), no sleep(1)
\* with a new Schedd, no further history query, no subprocess), no status
\* with 'exitcode' is made or received and no exit summary is logged.
C21_EmptyHistoryPropagates ==
    gdsExc.type = "IndexError" =>
        /\ pc = "exited"
        /\ wdResult = Raised(gdsExc)
        /\ gdsExc.at = attempt
        /\ exitStatus = 1
        /\ ev[Len(ev)] = Ev("history", schedd)
        /\ CountOp("history") = (IF herr.type \in {"IOError", "KeyError"} THEN 2 ELSE 1)
        /\ herr.type = "KeyError" <=> CountOp("sleep10") = 1
        /\ CountOp("history_shell") = 0
        /\ CountOp("sleep1_it") = (IF attempt = 2 THEN 1 ELSE 0)
        /\ attempt = 2 => ev[1] = Ev("sleep1_it", 0)
        /\ ~HasExitCode(status)
        /\ ~HasExitCode(job)
        /\ footer = "none"
        /\ intAt = "none"

\* C21 witness: in the second poll the DAG was gone from the queue and the
\* first history query gave no record; the IndexError ended the watch
C21_Witness ==
    /\ pc = "exited"
    /\ polls = 2
    /\ attempt = 1
    /\ gdsExc.type = "IndexError"
    /\ herr = NoExc
    /\ ev[Len(ev)] = Ev("history", schedd)
    /\ CountOp("history") = 1
    /\ wdResult = Raised(gdsExc)

\* C22: a KeyError that leaves the first call of get_dag_status of a poll
\* (from a node ad without JobStatus, or from a history record or query) is
\* caught by iterate_dag_status like an IOError: it does not leave the
\* generator; the generator sleeps 1 s, makes a new Schedd and calls
\* get_dag_status once more in the same poll, and never a third time: what
\* the second call returns is yielded, an IOError of the second call raises
\* the KeyError of the first, and anything else it raises is propagated.
C22_KeyErrorRetriedLikeIOError ==
    /\ [][(InGds /\ attempt = 1 /\ gdsExc'.type = "KeyError") =>
            /\ pc' = "it_sleep1"
            /\ e' = gdsExc'
            /\ wdResult' = Running
            /\ exitStatus' = exitStatus
            /\ <<schedd', nschedd', attempt', polls'>> = <<schedd, nschedd, attempt, polls>>
         ]_vars
    /\ [][(pc = "it_sleep1" /\ e.type = "KeyError" /\ ~Interrupted') =>
            /\ ev' = <<Ev("sleep1_it", 0), Ev("connect", nschedd + 1),
                       Ev("get_dag_status", nschedd + 1)>>
            /\ schedd' = nschedd + 1
            /\ nschedd' = nschedd + 1
            /\ attempt' = 2
            /\ polls' = polls
            /\ pc' = "gds_find_job"
            /\ e' = e
         ]_vars
    /\ [][(InGds /\ attempt = 2 /\ e.type = "KeyError" /\ ~InGds' /\ ~Interrupted') =>
            \/ /\ pc' = "it_yield"
               /\ wdResult' = Running
            \/ /\ pc' = "exited"
               /\ gdsExc'.at = 2
               /\ wdResult' = Raised(IF gdsExc'.type = "IOError" THEN e ELSE gdsExc')
         ]_vars
    /\ []((attempt = 2 /\ e.type = "KeyError" /\ ~Interrupted) =>
            /\ e.at = 1
            /\ pc # "it_sleep1"
            /\ pc \in PollingPoints \cup {"it_yield", "exited"} =>
                    /\ CountOp("sleep1_it") = 1
                    /\ CountOp("connect") = 1
                    /\ CountOp("get_dag_status") = 1
                    /\ SubSeq(ev, 1, 3) = <<Ev("sleep1_it", 0), Ev("connect", schedd),
                                            Ev("get_dag_status", schedd)>>)

\* C22 witness: a node ad without JobStatus raised KeyError in the first call
\* of the first poll; the second call, on the third Schedd, gave a status
C22_Witness ==
    /\ pc = "it_yield"
    /\ polls = 1
    /\ attempt = 2
    /\ e.type = "KeyError"
    /\ e.msg = <<"JobStatus">>
    /\ schedd = 3
    /\ ev[2] = Ev("connect", 3)
    /\ CountOp("get_dag_status") = 1
    /\ wdResult = Running
    /\ ~HasExitCode(status)

=============================================================================
